---- MODULE Spec2Model ----
(***************************************************************************)
(* The DigitalOcean provider (package digitalocean) and the SSH keypair    *)
(* bootstrap (package ssh) of the machine controller.                      *)
(*                                                                         *)
(* The backend (droplets, key registry) and the secret store are the       *)
(* environment; every provider operation is a process per machine, cut at  *)
(* its backend calls, because the backend changes between two calls (tags  *)
(* are applied once the droplet runs, other machines are reconciled        *)
(* concurrently).                                                          *)
(***************************************************************************)
EXTENDS Integers, Sequences, FiniteSets, TLC

\* ------------------------------------------------------------- bounds
\* Droplet-create calls the backend accepts (its quota); IDs are 1..MaxDroplets.
MaxDroplets == 2
\* Keys NewPrivateKey can hand out in a run.
MaxKeys == 3
MaxListLen == 2

\* ---------------------------------------------------------- constants
\* Seconds.
createCheckPeriod == 10
createCheckTimeout == 5 * 60

\* Ticks the poller of wait.Poll(createCheckPeriod, createCheckTimeout) can deliver.
MaxPolls == createCheckTimeout \div createCheckPeriod

\* Machines, named by their UID. Both carry the same Spec.Name.
Machines == {"A", "B"}
SpecName(m) == "node"

\* config.Tags of the provider config.
ConfigTags == {"k8s"}

\* The public key the controller passes to Create: the one of its keypair.
PublicKeys == {"pk1"}

\* The fingerprint of a key somebody else registered on the account.
ForeignFingerprint == "md5:0"

\* providerconfig.OperatingSystem values.
OperatingSystems == {"ubuntu", "coreos", "centos"}

Nil == [id |-> 0, name |-> "", tags |-> {}, applied |-> FALSE]

VARIABLES
    droplets,   \* backend: the set of droplets
    nextID,     \* backend: the next droplet ID
    registry,   \* backend: the SSH key registry, a sequence of fingerprints
    pc,         \* per machine: where its running operation stands
    call,       \* per machine: the locals of its running (or last) operation
    ret,        \* per machine: what its last finished operation returned
    live,       \* per machine: Create returned success and no Delete ran since
    registered, \* fingerprints some ensureSSHKeysExist call returned
    secret,     \* secret store: the data of the secret under secretName, or NoSecret
    kpc,        \* per caller of EnsureSSHKeypairSecret: where it stands
    kkey,       \* per caller: the key it generated
    kret,       \* per caller: what its last call returned
    nextKey,    \* the next key NewPrivateKey generates
    stored,     \* every content the secret store was given, in order
    failed,     \* reconciler: the machines one of whose Creates returned an error
    cancelled,  \* reconciler: the machines whose running Create the caller gave up
    fop,        \* the function under check ("none" when there is none)
    fin,        \* the inputs drawn for it
    fout        \* whether it was applied, and its result

provider == <<droplets, nextID, registry, pc, call, ret, live, registered>>
keypair == <<secret, kpc, kkey, kret, nextKey, stored>>
reconciler == <<failed, cancelled>>
functions == <<fop, fin, fout>>
vars == <<droplets, nextID, registry, pc, call, ret, live, registered,
          secret, kpc, kkey, kret, nextKey, stored, failed, cancelled, fop, fin, fout>>

\* ------------------------------------------------------------ helpers

\* The orders in which the backend may list a set of droplets.
Orderings(S) ==
    {f \in [1..Cardinality(S) -> S] : \A x \in S : \E i \in 1..Cardinality(S) : f[i] = x}

\* The tags a describe or list call shows: tags are applied once the droplet runs.
VisibleTags(d) == IF d.applied THEN d.tags ELSE {}

\* strconv.Itoa and strconv.Atoi (its error dropped: 0 when not a number).
Itoa(n) == ToString(n)
Atoi(s) == IF \E n \in 0..(MaxDroplets + 1) : ToString(n) = s
           THEN CHOOSE n \in 0..(MaxDroplets + 1) : ToString(n) = s
           ELSE 0

\* ssh.FingerprintLegacyMD5 of a public key.
Fingerprint(pk) == CASE pk = "pk1" -> "md5:1" [] OTHER -> "md5:?"

getSlugForOS(os) ==
    CASE os = "ubuntu" -> [slug |-> "ubuntu-16-04-x64", err |-> "nil"]
      [] os = "coreos" -> [slug |-> "coreos-stable", err |-> "nil"]
      [] OTHER -> [slug |-> "", err |-> "ErrOSNotSupported"]

Count(seq, x) == Cardinality({i \in 1..Len(seq) : seq[i] = x})

\* ------------------------------------------------------- provider: Get

NoRequest == [Image |-> "", Name |-> "", SSHKeys |-> <<>>, Tags |-> {}]
NoCall == [pk |-> "", fp |-> "", keyLookup |-> "none", keyCreate |-> "none",
           keyCreates |-> 0, sshErr |-> "none", afterReg |-> FALSE,
           h |-> Nil, polls |-> 0, sawTag |-> FALSE, pollErr |-> "none",
           getErr |-> "none", dels |-> 0, creates |-> 0, createErr |-> "none",
           req |-> NoRequest]
NoRet == [op |-> "none", err |-> "none", h |-> Nil]

\* Matches by the name alone.
Matches_NameOnly(d, m) == d.name = SpecName(m)

\* The condition of Get's loop: the name and the UID tag both match.
Matches(d, m) == d.name = SpecName(m) /\ m \in VisibleTags(d)

\* Get's for-range from its i-th iteration on: what the pointer d holds at the end,
\* "nil" or the address of the loop variable.
RECURSIVE RangeDroplets(_, _, _, _)
RangeDroplets(list, m, i, d) ==
    IF i > Len(list) THEN d
    ELSE RangeDroplets(list, m, i + 1, IF Matches(list[i], m) THEN "&droplet" ELSE d)

\* The loop variable after the range. The build is Go 1.15 (.prow.yaml): one variable
\* for the whole loop, which every iteration overwrites, so it ends as the last element.
LoopVariable(list) == list[Len(list)]

\* Get: (instance, error) for a machine, given whether the config decodes, whether the
\* list call succeeds, and the list the backend returns.
DoGet(m, cfgOK, listOK, list) ==
    IF ~cfgOK THEN [err |-> "config", h |-> Nil]
    ELSE IF ~listOK THEN [err |-> "list", h |-> Nil]
    ELSE IF RangeDroplets(list, m, 1, "nil") = "nil"
         THEN [err |-> "InstanceNotFoundErr", h |-> Nil]
         ELSE [err |-> "nil", h |-> LoopVariable(list)]

\* What Get may return to a caller now: the config decodes or not, the list call
\* succeeds or not, and the backend lists its droplets in any order.
GetOutcomes(m, cfgs) ==
    {DoGet(m, cfgOK, listOK, list) :
        cfgOK \in cfgs, listOK \in BOOLEAN, list \in Orderings(droplets)}

Get(m) ==
    /\ pc[m] = "idle"
    /\ \E g \in GetOutcomes(m, BOOLEAN) :
         ret' = [ret EXCEPT ![m] = [op |-> "Get", err |-> g.err, h |-> g.h]]
    /\ call' = [call EXCEPT ![m] = NoCall]
    /\ UNCHANGED <<droplets, nextID, registry, pc, live, registered>>
    /\ UNCHANGED keypair

\* ---------------------------------------------------- provider: Delete

\* DeleteOnGetErr taking every error of Get for InstanceNotFoundErr.
DeleteOnGetErr_AnyErrorIsGone(err) ==
    IF err = "nil" THEN [return |-> FALSE, err |-> "nil"] ELSE [return |-> TRUE, err |-> "nil"]

\* DeleteOnGetErr without the branch on InstanceNotFoundErr: every error is returned.
DeleteOnGetErr_NoIdempotence(err) ==
    IF err = "nil" THEN [return |-> FALSE, err |-> "nil"] ELSE [return |-> TRUE, err |-> err]

\* Delete's branch on Get's error: "nil" and "other error" returns, or go on to delete.
DeleteOnGetErr(err) ==
    CASE err = "InstanceNotFoundErr" -> [return |-> TRUE, err |-> "nil"]
      [] err = "nil" -> [return |-> FALSE, err |-> "nil"]
      [] OTHER -> [return |-> TRUE, err |-> err]

\* Delete up to and including its Get (which decodes the same config again).
DeleteBegin(m) ==
    /\ pc[m] = "idle"
    /\ \E cfgOK \in BOOLEAN :
         IF ~cfgOK
         THEN /\ ret' = [ret EXCEPT ![m] = [op |-> "Delete", err |-> "config", h |-> Nil]]
              /\ call' = [call EXCEPT ![m] = NoCall]
              /\ pc' = pc
         ELSE \E g \in GetOutcomes(m, {TRUE}) :
                LET b == DeleteOnGetErr(g.err)
                IN  /\ call' = [call EXCEPT ![m] = [NoCall EXCEPT !.getErr = g.err, !.h = g.h]]
                    /\ IF b.return
                       THEN /\ ret' = [ret EXCEPT ![m] = [op |-> "Delete", err |-> b.err, h |-> Nil]]
                            /\ pc' = pc
                       ELSE /\ ret' = [ret EXCEPT ![m] = NoRet]
                            /\ pc' = [pc EXCEPT ![m] = "d_delete"]
    /\ live' = [live EXCEPT ![m] = FALSE]
    /\ UNCHANGED <<droplets, nextID, registry, registered>>
    /\ UNCHANGED keypair

\* Delete's backend delete call, keyed by the handle's ID, and its return.
DeleteDroplet(m) ==
    /\ pc[m] = "d_delete"
    /\ \E resp \in {"ok", "fail"} :
         LET doID == Atoi(Itoa(call[m].h.id))
             ok == resp = "ok" /\ \E d \in droplets : d.id = doID
         IN  /\ droplets' = IF ok THEN {d \in droplets : d.id # doID} ELSE droplets
             /\ ret' = [ret EXCEPT ![m] = [op |-> "Delete", h |-> Nil,
                                           err |-> IF ok THEN "nil" ELSE "backend"]]
    /\ call' = [call EXCEPT ![m].dels = @ + 1]
    /\ pc' = [pc EXCEPT ![m] = "idle"]
    /\ UNCHANGED <<nextID, registry, live, registered>>
    /\ UNCHANGED keypair

\* ---------------------------------------------------- provider: Create

\* service.GetByFingerprint as ensureSSHKeysExist reads it: the key is "found", the
\* registry answers "404" (res.StatusCode == http.StatusNotFound), or the call fails
\* otherwise: with another status ("500") or with no response at all ("noresponse",
\* res == nil).
KeysGetByFingerprint(reg, fp, resp) ==
    CASE resp # "ok" -> resp
      [] Count(reg, fp) > 0 -> "found"
      [] OTHER -> "404"

\* OnKeyLookup creating the key whenever the lookup did not fail.
OnKeyLookup_AlwaysCreate(look) == IF look \in {"found", "404"} THEN "create" ELSE "fail"

\* OnKeyLookup taking every failed lookup for a missing key (the status not checked).
OnKeyLookup_AnyErrorCreates(look) == IF look = "found" THEN "return" ELSE "create"

\* What ensureSSHKeysExist does with the lookup's answer.
OnKeyLookup(look) ==
    CASE look = "found" -> "return"
      [] look = "404" -> "create"
      [] OTHER -> "fail"

\* Create up to and including ensureSSHKeysExist's fingerprint lookup.
CreateBegin(m) ==
    /\ pc[m] = "idle"
    /\ \E cfgOK \in BOOLEAN, pk \in PublicKeys, resp \in {"ok", "500", "noresponse"} :
         LET fp == Fingerprint(pk)
             look == KeysGetByFingerprint(registry, fp, resp)
             todo == OnKeyLookup(look)
             c == [NoCall EXCEPT !.pk = pk, !.keyLookup = look,
                                 !.afterReg = fp \in registered]
         IN  IF ~cfgOK
             THEN /\ ret' = [ret EXCEPT ![m] = [op |-> "Create", err |-> "config", h |-> Nil]]
                  /\ call' = [call EXCEPT ![m] = NoCall]
                  /\ UNCHANGED <<pc, registered>>
             ELSE CASE todo = "return" ->
                       /\ call' = [call EXCEPT ![m] = [c EXCEPT !.fp = fp, !.sshErr = "nil"]]
                       /\ ret' = [ret EXCEPT ![m] = NoRet]
                       /\ pc' = [pc EXCEPT ![m] = "c_create"]
                       /\ registered' = registered \cup {fp}
                    [] todo = "create" ->
                       /\ call' = [call EXCEPT ![m] = c]
                       /\ ret' = [ret EXCEPT ![m] = NoRet]
                       /\ pc' = [pc EXCEPT ![m] = "c_keycreate"]
                       /\ UNCHANGED registered
                    [] OTHER ->
                       /\ call' = [call EXCEPT ![m] = [c EXCEPT !.sshErr = "error"]]
                       /\ ret' = [ret EXCEPT ![m] = [op |-> "Create", err |-> "sshkeys", h |-> Nil]]
                       /\ UNCHANGED <<pc, registered>>
    /\ UNCHANGED <<droplets, nextID, registry, live>>
    /\ UNCHANGED keypair

\* ensureSSHKeysExist's service.Create and its return. The registry refuses a key it
\* holds already; a refused or failed call returns a nil key, and dokey.Fingerprint
\* then dereferences it: the goroutine panics.
CreateKey(m) ==
    /\ pc[m] = "c_keycreate"
    /\ \E resp \in {"ok", "fail"} :
         LET fp == Fingerprint(call[m].pk)
             ok == resp = "ok" /\ Count(registry, fp) = 0
         IN  IF ok
             THEN /\ registry' = Append(registry, fp)
                  /\ call' = [call EXCEPT ![m].keyCreate = "ok", ![m].keyCreates = @ + 1,
                                          ![m].fp = fp, ![m].sshErr = "nil"]
                  /\ pc' = [pc EXCEPT ![m] = "c_create"]
                  /\ registered' = registered \cup {fp}
                  /\ UNCHANGED ret
             ELSE /\ call' = [call EXCEPT ![m].keyCreate = "failed", ![m].keyCreates = @ + 1,
                                          ![m].sshErr = "panic"]
                  /\ ret' = [ret EXCEPT ![m] = [op |-> "Create", err |-> "panic", h |-> Nil]]
                  /\ pc' = [pc EXCEPT ![m] = "idle"]
                  /\ UNCHANGED <<registry, registered>>
    /\ UNCHANGED <<droplets, nextID, live>>
    /\ UNCHANGED keypair

\* OnDropletCreate going on to the poll whatever the create call returned.
OnDropletCreate_ErrIgnored(accepted) == "poll"

\* What Create does after client.Droplets.Create: return its error, or poll.
OnDropletCreate(accepted) == IF accepted THEN "poll" ELSE "return"

\* createRequest without the machine's UID among the tags.
createRequest_NoUID(m, slug, fingerprint) ==
    [Image |-> slug, Name |-> SpecName(m), SSHKeys |-> <<fingerprint>>, Tags |-> ConfigTags]

\* The godo.DropletCreateRequest Create builds (the fields the provider reads back).
createRequest(m, slug, fingerprint) ==
    [Image |-> slug, Name |-> SpecName(m), SSHKeys |-> <<fingerprint>>,
     Tags |-> ConfigTags \cup {m}]

\* The operating systems drawn for a Create: a supported one and an unsupported one.
CreateOperatingSystems == {"ubuntu", "centos"}

\* Create from getSlugForOS to the droplet-create call. The backend accepts at most
\* MaxDroplets droplets (its quota) and may reject any request.
CreateDroplet(m) ==
    /\ pc[m] = "c_create"
    /\ \E os \in CreateOperatingSystems, resp \in {"ok", "rejected"} :
         LET accepted == resp = "ok" /\ nextID <= MaxDroplets
             req == createRequest(m, getSlugForOS(os).slug, call[m].fp)
             droplet == [id |-> nextID, name |-> req.Name,
                         tags |-> req.Tags, applied |-> FALSE]
             c == [NoCall EXCEPT !.creates = call[m].creates + 1,
                                 !.fp = call[m].fp, !.sshErr = call[m].sshErr,
                                 !.req = req,
                                 !.createErr = IF accepted THEN "nil" ELSE "rejected"]
         IN  IF getSlugForOS(os).err # "nil"
             THEN /\ ret' = [ret EXCEPT ![m] = [op |-> "Create", err |-> "os", h |-> Nil]]
                  /\ pc' = [pc EXCEPT ![m] = "idle"]
                  /\ call' = [call EXCEPT ![m] = NoCall]
                  /\ UNCHANGED <<droplets, nextID>>
             ELSE /\ droplets' = IF accepted THEN droplets \cup {droplet} ELSE droplets
                  /\ nextID' = IF accepted THEN nextID + 1 ELSE nextID
                  /\ IF OnDropletCreate(accepted) = "return"
                     THEN /\ ret' = [ret EXCEPT ![m] = [op |-> "Create", err |-> "rejected", h |-> Nil]]
                          /\ pc' = [pc EXCEPT ![m] = "idle"]
                          /\ call' = [call EXCEPT ![m] = c]
                     ELSE /\ call' = [call EXCEPT ![m] =
                                        [c EXCEPT !.h = IF accepted THEN droplet ELSE Nil]]
                          /\ pc' = [pc EXCEPT ![m] = "c_poll"]
                          /\ UNCHANGED ret
    /\ UNCHANGED <<registry, live, registered>>
    /\ UNCHANGED keypair

\* PollCondition never reporting done.
PollCondition_NeverDone(m, described, tags) ==
    IF ~described THEN [done |-> FALSE, err |-> "describe"] ELSE [done |-> FALSE, err |-> "nil"]

\* The condition function handed to wait.Poll, given the describe call's answer.
PollCondition(m, described, tags) ==
    IF ~described THEN [done |-> FALSE, err |-> "describe"]
    ELSE IF m \in tags THEN [done |-> TRUE, err |-> "nil"]
    ELSE [done |-> FALSE, err |-> "nil"]

\* wait.Poll's WaitFor on a condition's answer: the condition's error, "nil" when it is
\* done, "go on" to the next tick while the poller's channel is open, and
\* "ErrWaitTimeout" once the channel is closed.
WaitFor(cond, open) ==
    IF cond.err # "nil" THEN cond.err
    ELSE IF cond.done THEN "nil"
    ELSE IF open THEN "go on"
    ELSE "ErrWaitTimeout"

\* What Create returns once wait.Poll has returned pollErr.
CreateReturn(droplet, pollErr) == [op |-> "Create", err |-> "nil", h |-> droplet]

\* One step of wait.Poll: the poller delivers a tick (one per createCheckPeriod, the
\* last of them due at the very instant the timeout is) or, the timeout over, closes
\* its channel; WaitFor runs the condition for each tick and once more at the close.
\* The condition describes the droplet; Create returns when the poll ends.
CreatePoll(m) ==
    /\ pc[m] = "c_poll"
    /\ \E open \in BOOLEAN, resp \in {"ok", "fail"} :
         /\ \/ open /\ call[m].polls < MaxPolls
            \/ ~open /\ call[m].polls >= MaxPolls - 1
         /\ LET id == call[m].h.id
                described == resp = "ok" /\ \E d \in droplets : d.id = id
                tags == IF described
                        THEN VisibleTags(CHOOSE d \in droplets : d.id = id)
                        ELSE {}
                w == WaitFor(PollCondition(m, described, tags), open)
                r == CreateReturn(call[m].h, w)
            IN  /\ call' = [call EXCEPT
                              ![m].polls = IF w = "go on" THEN @ + 1 ELSE 0,
                              ![m].sawTag = @ \/ (described /\ m \in tags),
                              ![m].pollErr = IF w = "go on" THEN @ ELSE w]
                /\ IF w = "go on"
                   THEN UNCHANGED <<pc, ret, live>>
                   ELSE /\ pc' = [pc EXCEPT ![m] = "idle"]
                        /\ ret' = [ret EXCEPT ![m] = r]
                        /\ live' = [live EXCEPT ![m] = r.err = "nil"]
    /\ UNCHANGED <<droplets, nextID, registry, registered>>
    /\ UNCHANGED keypair

\* The backend applies a droplet's tags once the droplet runs.
TagsApplied ==
    /\ \E d \in droplets :
         /\ ~d.applied
         /\ droplets' = (droplets \ {d}) \cup {[d EXCEPT !.applied = TRUE]}
    /\ UNCHANGED <<nextID, registry, pc, call, ret, live, registered>>
    /\ UNCHANGED keypair

ProviderNext ==
    \/ \E m \in Machines :
         \/ Get(m)
         \/ DeleteBegin(m)
         \/ DeleteDroplet(m)
         \/ CreateBegin(m)
         \/ CreateKey(m)
         \/ CreateDroplet(m)
         \/ CreatePoll(m)
    \/ TagsApplied

\* ------------------------------------------------- keypair bootstrapper

\* Execution contexts calling EnsureSSHKeypairSecret.
Callers == {"c1", "c2", "c3"}

NoKey == 0
NoSecret == [exists |-> FALSE, hasData |-> FALSE, pem |-> FALSE, type |-> "", der |-> "", key |-> NoKey]
NoKRet == [err |-> "none", key |-> NoKey, lost |-> FALSE]

\* x509.MarshalPKCS1PrivateKey and x509.ParsePKCS1PrivateKey.
MarshalPKCS1PrivateKey(k) == [der |-> "pkcs1", key |-> k]
ParsePKCS1PrivateKey(b) ==
    IF b.der = "pkcs1" /\ b.key # NoKey THEN [key |-> b.key, err |-> "nil"]
    ELSE [key |-> NoKey, err |-> "parse"]

\* pem.Encode of a block and pem.Decode (block "nil" when the bytes hold no PEM block).
PemEncode(type, b) == [pem |-> TRUE, type |-> type, der |-> b.der, key |-> b.key]
PemDecode(b) ==
    IF b.pem THEN [nil |-> FALSE, Bytes |-> [der |-> b.der, key |-> b.key]]
    ELSE [nil |-> TRUE, Bytes |-> [der |-> "", key |-> NoKey]]

\* The secret EnsureSSHKeypairSecret builds for a key: Data[privateKeyDataIndex] holds
\* the PEM block "RSA PRIVATE KEY" of the marshalled key.
SecretFor(k) ==
    LET p == PemEncode("RSA PRIVATE KEY", MarshalPKCS1PrivateKey(k))
    IN  [exists |-> TRUE, hasData |-> TRUE, pem |-> p.pem, type |-> p.type,
         der |-> p.der, key |-> p.key]

\* keyFromSecret: decoded.Bytes dereferences a nil block when the data is not PEM.
keyFromSecret(sec) ==
    IF ~sec.hasData THEN [key |-> NoKey, err |-> "key data not found"]
    ELSE LET decoded == PemDecode(sec)
         IN  IF decoded.nil THEN [key |-> NoKey, err |-> "panic"]
             ELSE LET p == ParsePKCS1PrivateKey(decoded.Bytes)
                  IN  IF p.err # "nil" THEN [key |-> NoKey, err |-> "failed to parse private key"]
                      ELSE [key |-> p.key, err |-> "nil"]

\* SecretsCreate as a write that replaces what the store holds.
SecretsCreate_Overwrite(store, sec, resp) ==
    IF resp # "ok" THEN [store |-> store, err |-> "error"] ELSE [store |-> sec, err |-> "nil"]

\* Secrets(...).Create on the store: the store refuses a name it holds (AlreadyExists),
\* and the call may fail otherwise.
SecretsCreate(store, sec, resp) ==
    IF resp # "ok" THEN [store |-> store, err |-> "error"]
    ELSE IF store.exists THEN [store |-> store, err |-> "AlreadyExists"]
    ELSE [store |-> sec, err |-> "nil"]

\* OnSecretCreate with the error of Secrets(...).Create dropped.
OnSecretCreate_ErrDropped(err, pk) == [err |-> "nil", key |-> pk, lost |-> err = "AlreadyExists"]

\* EnsureSSHKeypairSecret's return after Secrets(...).Create returned err.
OnSecretCreate(err, pk) ==
    IF err # "nil" THEN [err |-> err, key |-> NoKey, lost |-> err = "AlreadyExists"]
    ELSE [err |-> "nil", key |-> pk, lost |-> FALSE]

\* EnsureSSHKeypairSecret up to its next store call: the Get, then either the return
\* (found, or a failed read) or the generation of a key.
EnsureBegin(c) ==
    /\ kpc[c] = "idle"
    /\ \E resp \in {"ok", "fail"}, gen \in BOOLEAN :
         IF resp # "ok"
         THEN /\ kret' = [kret EXCEPT ![c] = [err |-> "error", key |-> NoKey, lost |-> FALSE]]
              /\ UNCHANGED <<kpc, kkey, nextKey>>
         ELSE IF secret.exists
         THEN /\ LET r == keyFromSecret(secret)
                 IN  kret' = [kret EXCEPT ![c] = [err |-> r.err, key |-> r.key, lost |-> FALSE]]
              /\ UNCHANGED <<kpc, kkey, nextKey>>
         ELSE IF gen /\ nextKey <= MaxKeys
         THEN /\ kkey' = [kkey EXCEPT ![c] = nextKey]
              /\ nextKey' = nextKey + 1
              /\ kpc' = [kpc EXCEPT ![c] = "create"]
              /\ kret' = [kret EXCEPT ![c] = NoKRet]
         ELSE /\ kret' = [kret EXCEPT ![c] = [err |-> "generate", key |-> NoKey, lost |-> FALSE]]
              /\ UNCHANGED <<kpc, kkey, nextKey>>
    /\ UNCHANGED <<secret, stored>>
    /\ UNCHANGED provider

\* EnsureSSHKeypairSecret's Secrets(...).Create and its return.
EnsureCreate(c) ==
    /\ kpc[c] = "create"
    /\ \E resp \in {"ok", "fail"} :
         LET w == SecretsCreate(secret, SecretFor(kkey[c]), resp)
         IN  /\ secret' = w.store
             /\ stored' = IF w.store # secret THEN Append(stored, w.store) ELSE stored
             /\ kret' = [kret EXCEPT ![c] = OnSecretCreate(w.err, kkey[c])]
    /\ kpc' = [kpc EXCEPT ![c] = "idle"]
    /\ kkey' = [kkey EXCEPT ![c] = NoKey]
    /\ UNCHANGED nextKey
    /\ UNCHANGED provider

KeypairNext == \E c \in Callers : EnsureBegin(c) \/ EnsureCreate(c)

\* ------------------------------------------- Validate and doInstance.Status

\* Validate's inputs: the decoded config and what the backend's catalogue answers.
Tokens == {"", "token"}
RegionSlugs == {"ams3", "nyc1"}
ConfigRegions == {"", "ams3"}
SizeSlugs == {"s-1vcpu", "s-2vcpu"}
ConfigSizes == {"", "s-1vcpu"}
Lists(S) == UNION {[1..n -> S] : n \in 0..MaxListLen}
Sizes == [Slug : SizeSlugs, Available : BOOLEAN, Regions : {<<"nyc1">>, <<"nyc1", "ams3">>}]
ListAnswers(S) == {[err |-> "error", list |-> <<>>]} \cup {[err |-> "nil", list |-> l] : l \in Lists(S)}

\* The backend calls that only read.
ReadCalls == {"Regions.List", "Sizes.List"}

\* ValidateCalls with a key registration after the reads.
ValidateCalls_RegistersKey(n) == SubSeq(<<"Regions.List", "Sizes.List">>, 1, n) \o <<"Keys.Create">>

\* The backend calls Validate has issued when it returns after n of them.
ValidateCalls(n) == SubSeq(<<"Regions.List", "Sizes.List">>, 1, n)

\* RegionAvailable without the look at the size's regions.
RegionAvailable_NotChecked(size, c) == TRUE

\* Validate's loop over a size's regions.
RegionAvailable(size, c) == \E i \in 1..Len(size.Regions) : size.Regions[i] = c.Region

\* Validate's loop over the sizes from its i-th iteration on: the first size with the
\* configured slug decides.
RECURSIVE RangeSizes(_, _, _)
RangeSizes(sizes, c, i) ==
    IF i > Len(sizes) THEN "size not found"
    ELSE IF sizes[i].Slug = c.Size
    THEN IF ~sizes[i].Available THEN "size is not available"
         ELSE IF ~RegionAvailable(sizes[i], c) THEN "size is not available in region"
         ELSE "nil"
    ELSE RangeSizes(sizes, c, i + 1)

\* Validate: its error and the backend calls it issued.
Validate(cfgOK, c, os, regions, sizes) ==
    IF ~cfgOK THEN [err |-> "failed to parse config", calls |-> ValidateCalls(0)]
    ELSE IF c.Token = "" THEN [err |-> "token is missing", calls |-> ValidateCalls(0)]
    ELSE IF c.Region = "" THEN [err |-> "region is missing", calls |-> ValidateCalls(0)]
    ELSE IF c.Size = "" THEN [err |-> "size is missing", calls |-> ValidateCalls(0)]
    ELSE IF getSlugForOS(os).err # "nil"
    THEN [err |-> "invalid operating system specified", calls |-> ValidateCalls(0)]
    ELSE IF regions.err # "nil" THEN [err |-> regions.err, calls |-> ValidateCalls(1)]
    ELSE IF ~\E i \in 1..Len(regions.list) : regions.list[i] = c.Region
    THEN [err |-> "region not found", calls |-> ValidateCalls(1)]
    ELSE IF sizes.err # "nil" THEN [err |-> sizes.err, calls |-> ValidateCalls(2)]
    ELSE [err |-> RangeSizes(sizes.list, c, 1), calls |-> ValidateCalls(2)]

NoResult == [done |-> FALSE, r |-> <<>>]

\* The answers of client.Sizes.List: the catalogue holds one size per slug.
SizeAnswers ==
    {a \in ListAnswers(Sizes) :
        \A i, j \in 1..Len(a.list) : a.list[i].Slug = a.list[j].Slug => i = j}

ValidateInputs ==
    [cfgOK : BOOLEAN, c : [Token : Tokens, Region : ConfigRegions, Size : ConfigSizes],
     os : OperatingSystems, regions : ListAnswers(RegionSlugs), sizes : SizeAnswers]

ApplyValidate ==
    /\ fop = "Validate" /\ ~fout.done
    /\ fout' = [done |-> TRUE,
                r |-> Validate(fin.cfgOK, fin.c, fin.os, fin.regions, fin.sizes)]
    /\ UNCHANGED <<fop, fin, provider, keypair, reconciler>>

\* The values of a droplet's status: the backend's, the empty one and unseen ones.
StatusStrings == {"new", "active", "off", "archive", "", "New", "ACTIVE", "errored"}

\* Status with InstanceStopped for "off" and "archive" only.
Status_KnownOnly(status) ==
    CASE status = "new" -> "InstanceStarting"
      [] status = "active" -> "InstanceRunning"
      [] status \in {"off", "archive"} -> "InstanceStopped"
      [] OTHER -> "unknown"

\* doInstance.Status on a droplet's status.
Status(status) ==
    CASE status = "new" -> "InstanceStarting"
      [] status = "active" -> "InstanceRunning"
      [] OTHER -> "InstanceStopped"

ApplyStatus ==
    /\ fop = "Status" /\ ~fout.done
    /\ fout' = [done |-> TRUE, r |-> Status(fin.status)]
    /\ UNCHANGED <<fop, fin, provider, keypair, reconciler>>

\* The droplets a backend list may hold for Get: the machine's name or another, the
\* UID of either machine or none among the tags, the tags applied or not.
ListedShapes ==
    [name : {"node", "other"}, tags : {ConfigTags, ConfigTags \cup {"A"}, ConfigTags \cup {"B"}},
     applied : BOOLEAN]
ListedDroplets ==
    {[i \in DOMAIN f |-> [id |-> i, name |-> f[i].name, tags |-> f[i].tags,
                          applied |-> f[i].applied]] : f \in Lists(ListedShapes)}

GetInputs == [m : Machines, cfgOK : BOOLEAN, listOK : BOOLEAN, list : ListedDroplets]

ApplyGet ==
    /\ fop = "Get" /\ ~fout.done
    /\ fout' = [done |-> TRUE, r |-> DoGet(fin.m, fin.cfgOK, fin.listOK, fin.list)]
    /\ UNCHANGED <<fop, fin, provider, keypair, reconciler>>

\* ------------------------------------------------------ specifications

\* What the secret store may hold when the controller starts: nothing, a key stored by
\* an earlier run, or a secret someone else wrote (no data entry, bytes that are not
\* PEM, PEM that is no key).
InitialSecrets ==
    { NoSecret,
      SecretFor(MaxKeys + 1),
      [SecretFor(MaxKeys + 1) EXCEPT !.hasData = FALSE],
      [SecretFor(MaxKeys + 1) EXCEPT !.pem = FALSE],
      [SecretFor(MaxKeys + 1) EXCEPT !.der = "junk"] }

ProviderInit ==
    /\ droplets = {}
    /\ nextID = 1
    /\ registry = <<ForeignFingerprint>>
    /\ pc = [m \in Machines |-> "idle"]
    /\ call = [m \in Machines |-> NoCall]
    /\ ret = [m \in Machines |-> NoRet]
    /\ live = [m \in Machines |-> FALSE]
    /\ registered = {}

ReconcilerInit ==
    /\ failed = {}
    /\ cancelled = {}

NoFunction ==
    /\ fop = "none"
    /\ fin = <<>>
    /\ fout = NoResult

KeypairInit ==
    /\ secret = NoSecret
    /\ stored = <<>>
    /\ kpc = [c \in Callers |-> "idle"]
    /\ kkey = [c \in Callers |-> NoKey]
    /\ kret = [c \in Callers |-> NoKRet]
    /\ nextKey = 1

\* The provider's operations on the backend.
Init == ProviderInit /\ KeypairInit /\ ReconcilerInit /\ NoFunction
Next == ProviderNext /\ UNCHANGED <<reconciler, functions>>
Spec == Init /\ [][Next]_vars

\* The keypair bootstrapper's callers on the secret store.
InitKeypair ==
    /\ ProviderInit
    /\ ReconcilerInit
    /\ NoFunction
    /\ secret \in InitialSecrets
    /\ stored = IF secret.exists THEN <<secret>> ELSE <<>>
    /\ kpc = [c \in Callers |-> "idle"]
    /\ kkey = [c \in Callers |-> NoKey]
    /\ kret = [c \in Callers |-> NoKRet]
    /\ nextKey = 1
NextKeypair == KeypairNext /\ UNCHANGED <<reconciler, functions>>
SpecKeypair == InitKeypair /\ [][NextKeypair]_vars

\* The reconciler: for each machine it runs Get and, when Get returned
\* InstanceNotFoundErr, Create; it may give a running Create up (its own deadline or
\* shutdown). Create takes no context from its caller and polls under context.TODO()
\* and wait.Poll, so no step of Create reads the signal.
ReconcileCreateBegin(m) ==
    /\ ret[m].op = "Get" /\ ret[m].err = "InstanceNotFoundErr"
    /\ CreateBegin(m)

Cancel(m) ==
    /\ pc[m] = "c_poll"
    /\ m \notin cancelled
    /\ cancelled' = cancelled \cup {m}
    /\ UNCHANGED <<provider, keypair, failed, functions>>

ReconcileStep(m) ==
    /\ \/ Get(m)
       \/ ReconcileCreateBegin(m)
       \/ CreateKey(m)
       \/ CreateDroplet(m)
       \/ CreatePoll(m)
    /\ failed' = IF ret'[m].op = "Create" /\ ret'[m].err # "nil"
                 THEN failed \cup {m} ELSE failed
    /\ cancelled' = IF pc'[m] = "c_poll" THEN cancelled ELSE cancelled \ {m}
    /\ UNCHANGED functions

NextReconcile ==
    \/ \E m \in Machines : ReconcileStep(m)
    \/ \E m \in Machines : Cancel(m)
    \/ TagsApplied /\ UNCHANGED <<reconciler, functions>>
SpecReconcile == Init /\ [][NextReconcile]_vars

\* Validate, Status and Get, each applied to inputs drawn at the start.
InitFunctions ==
    /\ ProviderInit /\ KeypairInit /\ ReconcilerInit
    /\ \/ fop = "Validate" /\ fin \in ValidateInputs
       \/ fop = "Status" /\ fin \in [status : StatusStrings]
       \/ fop = "Get" /\ fin \in GetInputs
    /\ fout = NoResult
NextFunctions == ApplyValidate \/ ApplyStatus \/ ApplyGet
SpecFunctions == InitFunctions /\ [][NextFunctions]_vars


\* C1: a handle Get returns denotes a droplet whose name is machine.Spec.Name and
\* whose tags contain machine.UID, whatever the order of the list (never the droplet
\* of another UID with the same name).
C1_IdentifierKeyedLookup ==
    \A m \in Machines :
        (ret[m].op = "Get" /\ ret[m].err = "nil") => Matches(ret[m].h, m)

\* C2: Delete never returns InstanceNotFoundErr; when its Get yields
\* InstanceNotFoundErr it returns nil after zero backend delete calls, and when its Get
\* finds the droplet it issues exactly one.
C2_IdempotentDelete ==
    \A m \in Machines :
        ret[m].op = "Delete" =>
            /\ ret[m].err # "InstanceNotFoundErr"
            /\ call[m].getErr = "InstanceNotFoundErr" => (ret[m].err = "nil" /\ call[m].dels = 0)
            /\ call[m].getErr = "nil" => call[m].dels = 1
            /\ call[m].dels <= 1

\* C2's case: one machine's Delete found nothing and returned nil, another's found its
\* droplet and deleted it.
C2_Witness ==
    \E m, n \in Machines :
        /\ ret[m].op = "Delete" /\ call[m].getErr = "InstanceNotFoundErr" /\ ret[m].err = "nil"
        /\ ret[n].op = "Delete" /\ call[n].getErr = "nil" /\ ret[n].err = "nil"

\* C3: when the poll ends by its timeout (no describe showed the UID tag), Create
\* returns an error and no handle.
C3_ConfirmationTimeout ==
    \A m \in Machines :
        call[m].pollErr = "ErrWaitTimeout" => (ret[m].err # "nil" /\ ret[m].h = Nil)

\* C4: a failed describe does not end the poll: the poll ends only when the UID tag was
\* seen or the timeout elapsed.
C4_DescribeErrorRetried ==
    \A m \in Machines :
        call[m].pollErr # "none" => call[m].pollErr \in {"nil", "ErrWaitTimeout"}

\* C5: once a describe has shown the UID tag, Create has returned (no further describe)
\* with success and a handle whose ID is the one the create call returned.
C5_ConfirmationSuccess ==
    \A m \in Machines :
        call[m].sawTag =>
            /\ pc[m] = "idle"
            /\ ret[m].op = "Create" /\ ret[m].err = "nil"
            /\ ret[m].h # Nil /\ ret[m].h.id = call[m].h.id
            /\ call[m].pollErr = "nil"

\* C5's case: a describe showed the tag and Create returned.
C5_Witness ==
    \E m \in Machines : call[m].sawTag /\ ret[m].op = "Create" /\ ret[m].h.id > 0

\* C6: after Create returned success for a machine, and with no Delete for it since,
\* Get for it does not return InstanceNotFoundErr.
C6_GetAfterCreate ==
    \A m \in Machines :
        (live[m] /\ ret[m].op = "Get") => ret[m].err # "InstanceNotFoundErr"

\* C7: the secret store is given at most one content in a run, the one it holds: a
\* stored key is never overwritten or replaced.
C7_KeypairSingletonStorage ==
    /\ Len(stored) <= 1
    /\ stored # <<>> => (secret.exists /\ secret = stored[1])
    /\ stored = <<>> => ~secret.exists

\* C7's case: two callers raced on the empty store, one stored its key and the other's
\* create was refused.
C7_Witness ==
    \E c, d \in Callers :
        /\ c # d
        /\ kret[c].err = "nil" /\ kret[c].key = secret.key /\ kret[c].key \in 1..MaxKeys
        /\ kret[d].lost

\* C8: a caller whose secret-create was refused because another caller created the
\* secret first returns no error, and returns the stored key.
C8_KeypairSingletonCallers ==
    \A c \in Callers :
        kret[c].lost => (kret[c].err = "nil" /\ kret[c].key = secret.key)

\* C9: when the lookup answered not-found and the registry create call then failed,
\* ensureSSHKeysExist returns normally, with a fingerprint the registry holds.
C9_RegistrationRace ==
    \A m \in Machines :
        call[m].keyCreate = "failed" =>
            (call[m].sshErr = "nil" /\ Count(registry, call[m].fp) > 0)

\* C10: an ensureSSHKeysExist call made after one returned the key's fingerprint finds
\* the key (its lookup does not answer not-found), issues no registry create call,
\* returns the same fingerprint, and the registry holds exactly one entry of it.
C10_RegistrationIdempotence ==
    \A m \in Machines :
        call[m].afterReg =>
            /\ call[m].keyLookup # "404"
            /\ call[m].keyCreates = 0
            /\ call[m].sshErr = "nil" =>
                   (call[m].fp = Fingerprint(call[m].pk) /\ call[m].fp \in registered)
            /\ Count(registry, Fingerprint(call[m].pk)) = 1

\* C10's case: a second call found the key and returned its fingerprint.
C10_Witness ==
    \E m \in Machines :
        /\ call[m].afterReg /\ call[m].keyLookup = "found"
        /\ call[m].sshErr = "nil" /\ call[m].fp = Fingerprint(call[m].pk)

\* C11: when the store holds a secret whose bytes are no valid key (no data entry,
\* bytes that are not PEM, or PEM that does not parse), every EnsureSSHKeypairSecret
\* call that returned gave an error value (it did not crash and returned no key), the
\* stored secret is what it was, and no replacement key was generated.
C11_CorruptKeypair ==
    (secret.exists /\ (~secret.hasData \/ ~secret.pem \/ secret.der # "pkcs1")) =>
        /\ \A c \in Callers :
               kret[c].err # "none" =>
                   (kret[c].err \notin {"nil", "panic"} /\ kret[c].key = NoKey)
        /\ stored = <<secret>>
        /\ nextKey = 1

\* C12: once the caller has given a polling Create up, the next step of that Create
\* ends it: it stops polling and returns.
C12_CancellablePolling ==
    [][\A m \in Machines :
          (m \in cancelled /\ pc[m] = "c_poll" /\ call'[m] # call[m]) =>
              pc'[m] = "idle"]_vars

\* C20: a machine the reconciler ran Get-then-Create for, none of whose Creates
\* returned an error, has at most one droplet carrying its UID.
C20_NoDuplicateInstances ==
    \A m \in Machines :
        m \notin failed => Cardinality({d \in droplets : m \in d.tags}) <= 1

\* C13: an invocation of Create issues at most one droplet-create call and an
\* invocation of Delete at most one droplet-delete call; a Create whose droplet-create
\* call the backend rejected has returned that error, without a describe call.
C13_NoInternalRetry ==
    \A m \in Machines :
        /\ call[m].creates <= 1
        /\ call[m].dels <= 1
        /\ call[m].createErr = "rejected" =>
               /\ pc[m] = "idle"
               /\ ret[m] = [op |-> "Create", err |-> "rejected", h |-> Nil]
               /\ call[m].polls = 0 /\ call[m].pollErr = "none" /\ ~call[m].sawTag

\* C13's case: the backend rejected a droplet-create call and Create returned.
C13_Witness ==
    \E m \in Machines :
        call[m].createErr = "rejected" /\ ret[m].op = "Create" /\ call[m].creates = 1

\* C14: the handle of a Create that saw the UID tag in a describe is the described
\* droplet: it shows the tag.
C14_ConfirmedHandle ==
    \A m \in Machines :
        (ret[m].op = "Create" /\ ret[m].err = "nil" /\ call[m].sawTag) =>
            m \in VisibleTags(ret[m].h)

\* C18: a Create whose key lookup failed otherwise than with not-found (another
\* status, or no response) issued no registry create call and no droplet-create call:
\* ensureSSHKeysExist returned an error and Create returned it.
C18_LookupErrorPropagates ==
    \A m \in Machines :
        call[m].keyLookup \in {"500", "noresponse"} =>
            /\ call[m].sshErr = "error"
            /\ call[m].keyCreates = 0 /\ call[m].keyCreate = "none"
            /\ call[m].creates = 0
            /\ pc[m] = "idle"
            /\ ret[m] = [op |-> "Create", err |-> "sshkeys", h |-> Nil]

\* C18's case: the lookup got no response and Create returned.
C18_Witness ==
    \E m \in Machines :
        call[m].keyLookup = "noresponse" /\ ret[m].op = "Create"

\* C19: the droplet whose ID Delete passed to the droplet-delete call has the
\* machine's name and carries the machine's UID.
C19_DeleteOwnDroplet ==
    \A m \in Machines :
        call[m].dels > 0 =>
            (call[m].h.name = SpecName(m) /\ m \in call[m].h.tags)

\* C15: a step of Validate issues only read calls (the region list, the size list) and
\* leaves the droplets, the registered keys and the secret store as they were, whether
\* it returns nil or an error.
C15_ValidateReadOnly ==
    [][(fop = "Validate" /\ fout'.done) =>
          /\ \A i \in 1..Len(fout'.r.calls) : fout'.r.calls[i] \in ReadCalls
          /\ UNCHANGED <<droplets, registry, secret>>]_vars

\* C15's case: Validate passed after both list calls.
C15_Witness == fop = "Validate" /\ fout.done /\ fout.r.err = "nil" /\ Len(fout.r.calls) = 2

\* C16: Status gives InstanceStarting exactly for "new", InstanceRunning exactly for
\* "active" and InstanceStopped for every other status, the empty one included.
C16_StatusTotal ==
    (fop = "Status" /\ fout.done) =>
        /\ fout.r \in {"InstanceStarting", "InstanceRunning", "InstanceStopped"}
        /\ fout.r = "InstanceStarting" <=> fin.status = "new"
        /\ fout.r = "InstanceRunning" <=> fin.status = "active"
        /\ fout.r = "InstanceStopped" <=> fin.status \notin {"new", "active"}

\* C16's case: Status applied to a status the backend does not document.
C16_Witness ==
    fop = "Status" /\ fout.done /\ fin.status \notin {"new", "active", "off", "archive"}

\* C17: Get returns InstanceNotFoundErr exactly when its config decodes, the list call
\* succeeds and no listed droplet has both the machine's name and its UID among the
\* tags shown; a failed list call gives another error.
C17_GetNotFound ==
    (fop = "Get" /\ fout.done) =>
        LET both == \E i \in 1..Len(fin.list) :
                        /\ fin.list[i].name = SpecName(fin.m)
                        /\ fin.list[i].applied /\ fin.m \in fin.list[i].tags
        IN  /\ fout.r.err = "InstanceNotFoundErr" <=> (fin.cfgOK /\ fin.listOK /\ ~both)
            /\ (fin.cfgOK /\ ~fin.listOK) => fout.r.err = "list"
            /\ fout.r.err = "nil" <=> (fin.cfgOK /\ fin.listOK /\ both)

\* C17's case: Get found nothing in a list holding a droplet with the machine's name
\* only and a droplet with its UID only.
C17_Witness ==
    /\ fop = "Get" /\ fout.done /\ fout.r.err = "InstanceNotFoundErr"
    /\ \E i \in 1..Len(fin.list) :
           fin.list[i].name = SpecName(fin.m) /\ fin.m \notin VisibleTags(fin.list[i])
    /\ \E i \in 1..Len(fin.list) :
           fin.list[i].name # SpecName(fin.m) /\ fin.m \in VisibleTags(fin.list[i])

\* C21: a Create that issued the droplet-create call had a fingerprint from
\* ensureSSHKeysExist and an image for the operating system; its request carries the
\* configured tags and the machine's UID, and its SSH key list is that fingerprint, a
\* key of the registry. A Create whose key registration failed or whose operating
\* system is unsupported issued no droplet-create call.
C21_CreateOrdering ==
    \A m \in Machines :
        /\ call[m].creates > 0 =>
               /\ call[m].sshErr = "nil"
               /\ call[m].req.SSHKeys = <<call[m].fp>>
               /\ call[m].fp \in registered /\ Count(registry, call[m].fp) = 1
               /\ call[m].req.Image \in {"ubuntu-16-04-x64", "coreos-stable"}
               /\ call[m].req.Name = SpecName(m)
               /\ ConfigTags \subseteq call[m].req.Tags /\ m \in call[m].req.Tags
        /\ call[m].sshErr \in {"error", "panic"} => call[m].creates = 0
        /\ (ret[m].op = "Create" /\ ret[m].err \in {"sshkeys", "panic", "os"}) =>
               (call[m].creates = 0 /\ call[m].req = NoRequest)

\* C21's case: a droplet was created from a request with the registered fingerprint.
C21_Witness ==
    \E m \in Machines :
        /\ call[m].creates = 1 /\ call[m].createErr = "nil"
        /\ \E d \in droplets : d.id = call[m].h.id /\ d.tags = call[m].req.Tags

\* C22: when the config does not decode, or token, region or size is empty, or the
\* operating system is neither ubuntu nor coreos, Validate returns an error and has
\* issued no backend call; otherwise it returns nil exactly when the region list holds
\* the region and the size list holds the size, available and offered in the region.
C22_ValidateRejectsEarly ==
    (fop = "Validate" /\ fout.done) =>
        LET early == \/ ~fin.cfgOK
                     \/ fin.c.Token = "" \/ fin.c.Region = "" \/ fin.c.Size = ""
                     \/ fin.os \notin {"ubuntu", "coreos"}
            region == /\ fin.regions.err = "nil"
                      /\ \E i \in 1..Len(fin.regions.list) : fin.regions.list[i] = fin.c.Region
            size == /\ fin.sizes.err = "nil"
                    /\ \E i \in 1..Len(fin.sizes.list) :
                           /\ fin.sizes.list[i].Slug = fin.c.Size
                           /\ fin.sizes.list[i].Available
                           /\ \E j \in 1..Len(fin.sizes.list[i].Regions) :
                                  fin.sizes.list[i].Regions[j] = fin.c.Region
        IN  /\ early => (fout.r.err # "nil" /\ fout.r.calls = <<>>)
            /\ ~early => (fout.r.err = "nil" <=> (region /\ size))

\* C22's case: Validate passed on a size found after another one in the size list.
C22_Witness ==
    /\ fop = "Validate" /\ fout.done /\ fout.r.err = "nil"
    /\ Len(fin.sizes.list) = 2 /\ fin.sizes.list[2].Slug = fin.c.Size

\* C23: every step of Create's poll makes one describe call, and the call it makes is
\* at most the createCheckTimeout / createCheckPeriod-th of that Create.
C23_BoundedConfirmation ==
    [][\A m \in Machines :
          (pc[m] = "c_poll" /\ (pc'[m] # "c_poll" \/ call'[m].polls # call[m].polls)) =>
              call[m].polls + 1 <= createCheckTimeout \div createCheckPeriod]_vars

\* C24: with a store that is empty or holds a key, a call of EnsureSSHKeypairSecret
\* that returns without error returns the stored key, having written it only if the
\* store was empty; a call that returns an error (a failed read, a failed or refused
\* write) returns no key and leaves the store as it was.
C24_KeypairStable ==
    [][\A c \in Callers :
          (/\ EnsureBegin(c) \/ EnsureCreate(c)
           /\ kret'[c].err # "none"
           /\ ~secret.exists \/ (secret.hasData /\ secret.pem /\ secret.der = "pkcs1")) =>
              IF kret'[c].err = "nil"
              THEN /\ kret'[c].key # NoKey /\ kret'[c].key = secret'.key
                   /\ secret.exists => (secret' = secret /\ stored' = stored)
                   /\ ~secret.exists => (secret' = SecretFor(kkey[c]) /\ kret'[c].key = kkey[c])
              ELSE kret'[c].key = NoKey /\ secret' = secret /\ stored' = stored]_vars

\* C24's case: a caller stored the key it generated and another caller, later, read
\* that key from the store.
C24_Witness ==
    \E c, d \in Callers :
        /\ c # d /\ Len(stored) = 1 /\ stored[1] = SecretFor(kret[c].key)
        /\ kret[c].err = "nil" /\ kret[c].key \in 1..MaxKeys
        /\ kret[d].err = "nil" /\ kret[d].key = kret[c].key

\* C25: a Delete whose config does not decode, or whose Get failed otherwise than with
\* InstanceNotFoundErr, returned that error and issued no delete call; a Delete that
\* returned nil had Get's handle or Get's InstanceNotFoundErr.
C25_DeleteFailsClosed ==
    \A m \in Machines :
        ret[m].op = "Delete" =>
            /\ ret[m].err = "config" => call[m].dels = 0
            /\ call[m].getErr \notin {"none", "nil", "InstanceNotFoundErr"} =>
                   (ret[m].err = call[m].getErr /\ call[m].dels = 0)
            /\ ret[m].err = "nil" =>
                   \/ call[m].getErr = "InstanceNotFoundErr" /\ call[m].dels = 0
                   \/ call[m].getErr = "nil" /\ call[m].dels = 1

\* C25's case: the droplet list call failed while a droplet existed, and Delete
\* returned the error.
C25_Witness ==
    \E m \in Machines :
        /\ ret[m].op = "Delete" /\ call[m].getErr = "list" /\ ret[m].err = "list"
        /\ droplets # {}

====
